---------------------------- MODULE Spec2Model ----------------------------
(***************************************************************************)
(* The profile-settings editor (ProfileSettingsModal) of                   *)
(* src/src/components/Header.tsx as a state machine: the five field        *)
(* states, the validation errors, the debounce timer, the preview handle,  *)
(* the localStorage slot that holds the draft, and the host's callbacks.   *)
(* Text is modelled character by character: JSON.stringify / JSON.parse,   *)
(* String.prototype.trim and the URL parser are computed, not assumed.     *)
(* The looping RoundTimer of src/unnamed/part_000 is the second, smaller    *)
(* state machine: its prop, its seconds state and its interval.            *)
(***************************************************************************)
EXTENDS Integers, Sequences, FiniteSets, TLC

(***************************************************************************)
(* Program constants.                                                      *)
(***************************************************************************)
BIO_MAX == 100

DEBOUNCE_MS == 150

DRAFT_KEY == "profile_settings_draft_v1"

(***************************************************************************)
(* Bounds of the model.                                                    *)
(***************************************************************************)
\* milliseconds that pass in one Tick
TickMs == 75

\* createObjectURL calls in one page load
MaxHandles == 2

\* times the host mounts the editor in one page load
MaxMounts == 1

\* times the host mounts the editor in a page load that opens it again
MaxSessions == 2

\* revokeObjectURL calls one URL receives before createObjectURL stops throwing
MaxRevokes == 3

\* the largest initialSeconds the host passes to RoundTimer
MaxSeconds == 4

\* onClose invocations the host receives before it must have unmounted
MaxCloseCalls == 2

\* field edits (text, toggle) over a whole run
MaxEdits == 2

(***************************************************************************)
(* JavaScript values: strings, booleans, null and undefined are tagged so  *)
(* that values of different types can be compared.                         *)
(***************************************************************************)
Str(s) == [t |-> "str", v |-> s]

Bool(b) == [t |-> "bool", v |-> b]

Num(d) == [t |-> "num", v |-> d]

Null == [t |-> "null"]

Undefined == [t |-> "undef"]

Obj(f) == [t |-> "obj", v |-> f]

Arr(q) == [t |-> "arr", v |-> q]

EmptyProps == [k \in {} |-> Null]

IsStr(x) == x.t = "str"

\* x ?? d
Nullish(x, d) == IF x.t \in {"null", "undef"} THEN d ELSE x

\* o?.[k] for an own-property map o
Prop(o, k) == IF k \in DOMAIN o THEN o[k] ELSE Undefined

\* Boolean(x), !!x
Truthy(x) ==
  CASE x.t = "str" -> x.v # ""
    [] x.t = "bool" -> x.v
    [] x.t = "num" -> x.v # "0"
    [] x.t \in {"null", "undef"} -> FALSE
    [] OTHER -> TRUE

\* typeof x === "object"
TypeofObject(x) == x.t \in {"obj", "arr", "null"}

(***************************************************************************)
(* Strings.                                                                *)
(***************************************************************************)
Char(s, i) == IF i >= 1 /\ i <= Len(s) THEN SubSeq(s, i, i) ELSE ""

Min(a, b) == IF a <= b THEN a ELSE b

WhiteSpace == {" ", "\t", "\n", "\r"}

RECURSIVE TrimStart(_)
TrimStart(s) ==
  IF s # "" /\ Char(s, 1) \in WhiteSpace THEN TrimStart(SubSeq(s, 2, Len(s))) ELSE s

RECURSIVE TrimEnd(_)
TrimEnd(s) ==
  IF s # "" /\ Char(s, Len(s)) \in WhiteSpace THEN TrimEnd(SubSeq(s, 1, Len(s) - 1)) ELSE s

\* String.prototype.trim
Trim(s) == TrimEnd(TrimStart(s))

\* s.slice(0, n)
Slice0(s, n) == SubSeq(s, 1, Min(n, Len(s)))

\* s.startsWith(p)
StartsWith(s, p) == Len(s) >= Len(p) /\ SubSeq(s, 1, Len(p)) = p

RECURSIVE Rep(_, _)
\* c repeated n times
Rep(c, n) ==
  IF n = 0 THEN ""
  ELSE LET h == Rep(c, n \div 2) IN h \o h \o (IF n % 2 = 1 THEN c ELSE "")

\* the positions lo..hi of s that hold a character of set cs
PositionsOf(s, cs, lo, hi) == UNION {{j \in lo..hi : Char(x, j) \in cs} : x \in {s}}

\* the least element of a set of positions, or 0
MinOf(at) == IF at = {} THEN 0 ELSE CHOOSE j \in at : \A k \in at : j <= k

\* the greatest element of a set of positions, or 0
MaxOf(at) == IF at = {} THEN 0 ELSE CHOOSE j \in at : \A k \in at : j >= k

\* the first position >= i of s holding a character of set cs, or 0
IndexOf(s, cs, i) == CHOOSE r \in {MinOf(at) : at \in {PositionsOf(s, cs, i, Len(s))}} : TRUE

\* the last position <= i of s holding a character of set cs, or 0
LastIndexOf(s, cs, i) == CHOOSE r \in {MaxOf(at) : at \in {PositionsOf(s, cs, 1, i)}} : TRUE


Upper == "ABCDEFGHIJKLMNOPQRSTUVWXYZ"

Lower == "abcdefghijklmnopqrstuvwxyz"

Digits == "0123456789"

CharsOf(s) == UNION {{Char(x, i) : i \in 1..Len(x)} : x \in {s}}

LowerChar(c) ==
  LET i == IndexOf(Upper, {c}, 1) IN IF i = 0 THEN c ELSE Char(Lower, i)

RECURSIVE LowerFrom(_, _)
\* s from position i on in lower case: the run up to the next upper-case
\* letter is copied as it is
LowerFrom(s, i) ==
  LET p == IndexOf(s, CharsOf(Upper), i) IN
  IF p = 0 THEN SubSeq(s, i, Len(s))
  ELSE SubSeq(s, i, p - 1) \o LowerChar(Char(s, p)) \o LowerFrom(s, p + 1)

ToLower(s) == CHOOSE r \in {LowerFrom(x, 1) : x \in {s}} : TRUE


(***************************************************************************)
(* JSON.stringify, for the objects writeDraft is given: own properties in  *)
(* insertion order, a property whose value is undefined left out.          *)
(***************************************************************************)
FieldOrder == <<"avatarUrl", "name", "bio", "twitterLink", "streamerMode">>

Fields == {FieldOrder[i] : i \in 1..Len(FieldOrder)}

\* as QuoteChar, but a backslash is copied as it is
QuoteCharPlainBackslash(c) ==
  CASE c = "\"" -> "\\\""
    [] c = "\n" -> "\\n"
    [] c = "\t" -> "\\t"
    [] c = "\r" -> "\\r"
    [] OTHER -> c

QuoteChar(c) ==
  CASE c = "\"" -> "\\\""
    [] c = "\\" -> "\\\\"
    [] c = "\n" -> "\\n"
    [] c = "\t" -> "\\t"
    [] c = "\r" -> "\\r"
    [] OTHER -> c

\* the characters JSON.stringify escapes
Escaped == {"\"", "\\", "\n", "\t", "\r"}

RECURSIVE QuoteFrom(_, _)
\* s from position i on with its characters escaped: the run up to the next
\* escaped character is copied as it is
QuoteFrom(s, i) ==
  LET p == IndexOf(s, Escaped, i) IN
  IF p = 0 THEN SubSeq(s, i, Len(s))
  ELSE SubSeq(s, i, p - 1) \o QuoteChar(Char(s, p)) \o QuoteFrom(s, p + 1)

Quote(s) == CHOOSE r \in {"\"" \o QuoteFrom(x, 1) \o "\"" : x \in {s}} : TRUE

StringifyValue(x) ==
  CASE x.t = "str" -> Quote(x.v)
    [] x.t = "bool" -> (IF x.v THEN "true" ELSE "false")
    [] x.t = "num" -> x.v
    [] OTHER -> "null"

RECURSIVE StringifyProps(_, _, _)
StringifyProps(o, i, first) ==
  IF i > Len(FieldOrder) THEN ""
  ELSE LET k == FieldOrder[i] IN
       IF k \notin DOMAIN o \/ o[k].t = "undef"
       THEN StringifyProps(o, i + 1, first)
       ELSE (IF first THEN "" ELSE ",") \o Quote(k) \o ":" \o StringifyValue(o[k])
            \o StringifyProps(o, i + 1, FALSE)

JSONStringify(o) == "{" \o StringifyProps(o, 1, TRUE) \o "}"

(***************************************************************************)
(* JSON.parse: a recursive-descent parser of objects, arrays, strings,     *)
(* unsigned integers and the three literals.  A parse step yields          *)
(* [ok, v, pos]; ParseFail stands for the SyntaxError JSON.parse throws.   *)
(***************************************************************************)
ParseFail == [ok |-> FALSE, v |-> Undefined, pos |-> 0]

ParseOk(x, p) == [ok |-> TRUE, v |-> x, pos |-> p]

RECURSIVE SkipWs(_, _)
SkipWs(s, i) == IF Char(s, i) \in WhiteSpace THEN SkipWs(s, i + 1) ELSE i

\* the characters that end a run of plain characters in a string literal
Special == {"\"", "\\", "\n", "\t", "\r"}

\* the character an escape sequence \e stands for, or "" if there is none
Unescape(e) ==
  CASE e \in {"\"", "\\", "/"} -> e
    [] e = "n" -> "\n"
    [] e = "t" -> "\t"
    [] e = "r" -> "\r"
    [] OTHER -> ""

RECURSIVE ParseStringBody(_, _, _)
\* the string literal whose opening quote is just before position i: the run
\* up to the next special character is taken as it is
ParseStringBody(s, i, acc) ==
  LET p == IndexOf(s, Special, i) IN
  IF p = 0 THEN ParseFail
  ELSE LET run == acc \o SubSeq(s, i, p - 1)
           c == Char(s, p)
       IN CASE c = "\"" -> ParseOk(Str(run), p + 1)
            [] c = "\\" -> (IF Unescape(Char(s, p + 1)) = "" THEN ParseFail
                           ELSE ParseStringBody(s, p + 2, run \o Unescape(Char(s, p + 1))))
            [] OTHER -> ParseFail

RECURSIVE ParseDigits(_, _, _)
ParseDigits(s, i, acc) ==
  IF Char(s, i) \in CharsOf(Digits) THEN ParseDigits(s, i + 1, acc \o Char(s, i))
  ELSE ParseOk(Num(acc), i)

RECURSIVE ParseValue(_, _)
RECURSIVE ParseMembers(_, _, _)
RECURSIVE ParseElements(_, _, _)

\* the members of an object from position i, after "{" or ","
ParseMembers(s, i0, acc) ==
  LET i == SkipWs(s, i0) IN
  IF Char(s, i) # "\"" THEN ParseFail
  ELSE LET k == ParseStringBody(s, i + 1, "") IN
       IF ~k.ok THEN ParseFail
       ELSE LET j == SkipWs(s, k.pos) IN
            IF Char(s, j) # ":" THEN ParseFail
            ELSE LET x == ParseValue(s, j + 1) IN
                 IF ~x.ok THEN ParseFail
                 ELSE LET n == SkipWs(s, x.pos)
                          next == (k.v.v :> x.v) @@ acc
                      IN CASE Char(s, n) = "," -> ParseMembers(s, n + 1, next)
                           [] Char(s, n) = "}" -> ParseOk(Obj(next), n + 1)
                           [] OTHER -> ParseFail

\* the elements of an array from position i, after "[" or ","
ParseElements(s, i0, acc) ==
  LET x == ParseValue(s, i0) IN
  IF ~x.ok THEN ParseFail
  ELSE LET n == SkipWs(s, x.pos)
           next == Append(acc, x.v)
       IN CASE Char(s, n) = "," -> ParseElements(s, n + 1, next)
            [] Char(s, n) = "]" -> ParseOk(Arr(next), n + 1)
            [] OTHER -> ParseFail

ParseValue(s, i0) ==
  LET i == SkipWs(s, i0)
      c == Char(s, i)
  IN CASE c = "{" ->
            (IF Char(s, SkipWs(s, i + 1)) = "}"
             THEN ParseOk(Obj(EmptyProps), SkipWs(s, i + 1) + 1)
             ELSE ParseMembers(s, i + 1, EmptyProps))
       [] c = "[" ->
            (IF Char(s, SkipWs(s, i + 1)) = "]"
             THEN ParseOk(Arr(<<>>), SkipWs(s, i + 1) + 1)
             ELSE ParseElements(s, i + 1, <<>>))
       [] c = "\"" -> ParseStringBody(s, i + 1, "")
       [] c \in CharsOf(Digits) ->
            (IF c = "0" /\ Char(s, i + 1) \in CharsOf(Digits) THEN ParseFail
             ELSE ParseDigits(s, i, ""))
       [] SubSeq(s, i, Min(i + 3, Len(s))) = "true" -> ParseOk(Bool(TRUE), i + 4)
       [] SubSeq(s, i, Min(i + 4, Len(s))) = "false" -> ParseOk(Bool(FALSE), i + 5)
       [] SubSeq(s, i, Min(i + 3, Len(s))) = "null" -> ParseOk(Null, i + 4)
       [] OTHER -> ParseFail

\* JSON.parse(raw): [ok |-> FALSE] is a thrown SyntaxError
JSONParse(raw) ==
  LET x == ParseValue(raw, 1) IN
  IF x.ok /\ SkipWs(raw, x.pos) = Len(raw) + 1 THEN [ok |-> TRUE, v |-> x.v]
  ELSE [ok |-> FALSE, v |-> Undefined]

(***************************************************************************)
(* new URL(value), without a base: the part of the URL parser that decides *)
(* whether a string parses and what its hostname is.  [ok |-> FALSE] is    *)
(* the TypeError the constructor throws.                                   *)
(***************************************************************************)
SpecialSchemes == {"http", "https", "ftp", "ws", "wss"}

SchemeChars == CharsOf(Upper) \cup CharsOf(Lower) \cup CharsOf(Digits) \cup {"+", "-", "."}

ForbiddenHostChars == {" ", "<", ">", "[", "]", "^", "|", "%", "\\", "\"", "\t", "\n", "\r"}

UrlFail == [ok |-> FALSE, hostname |-> ""]

UrlOk(hostname) == [ok |-> TRUE, hostname |-> hostname]

\* the position of the ":" that ends the scheme s starts with, or 0
SchemeEnd(s) ==
  CHOOSE r \in
    {IF colon > 1 /\ Char(s, 1) \in CharsOf(Upper) \cup CharsOf(Lower)
        /\ CharsOf(SubSeq(s, 1, colon - 1)) \subseteq SchemeChars
     THEN colon ELSE 0 : colon \in {IndexOf(s, {":"}, 1)}} : TRUE

RECURSIVE SkipSlashes(_, _)
SkipSlashes(s, i) == IF Char(s, i) \in {"/", "\\"} THEN SkipSlashes(s, i + 1) ELSE i

\* host state: the host, after the userinfo and before the port, of authority auth
ParseHost(auth, special) ==
  CHOOSE r \in
    {LET colon == IndexOf(hp, {":"}, 1)
         host == IF colon = 0 THEN hp ELSE SubSeq(hp, 1, colon - 1)
         port == IF colon = 0 THEN "" ELSE SubSeq(hp, colon + 1, Len(hp))
     IN IF ~(CharsOf(port) \subseteq CharsOf(Digits)) THEN UrlFail
        ELSE IF CharsOf(host) \cap ForbiddenHostChars # {} THEN UrlFail
        ELSE IF special /\ host = "" THEN UrlFail
        ELSE UrlOk(IF special THEN ToLower(host) ELSE host)
     : hp \in {SubSeq(auth, LastIndexOf(auth, {"@"}, Len(auth)) + 1, Len(auth))}} : TRUE

\* authority state: rest is what follows "scheme:"
ParseAuthority(rest, special) ==
  IF ~special /\ ~StartsWith(rest, "//") THEN UrlOk("")
  ELSE CHOOSE r \in
    {ParseHost(auth, special) : auth \in
       {LET start == IF special THEN SkipSlashes(rest, 1) ELSE 3
            stop == IndexOf(rest, IF special THEN {"/", "\\", "?", "#"} ELSE {"/", "?", "#"},
                            start)
        IN SubSeq(rest, start, IF stop = 0 THEN Len(rest) ELSE stop - 1)}} : TRUE

\* scheme state: s is the input without its leading and trailing spaces
ParseScheme(s) ==
  CHOOSE r \in
    {IF colon = 0 THEN UrlFail
     ELSE ParseAuthority(SubSeq(s, colon + 1, Len(s)),
                         ToLower(SubSeq(s, 1, colon - 1)) \in SpecialSchemes)
     : colon \in {SchemeEnd(s)}} : TRUE

ParseURL(value) == CHOOSE r \in {ParseScheme(s) : s \in {Trim(value)}} : TRUE

\* as StripWww, but nothing is removed
StripWwwNever(host) == host

\* host.replace(/^www\./, "")
StripWww(host) == IF StartsWith(host, "www.") THEN SubSeq(host, 5, Len(host)) ELSE host

isValidTwitterUrl(value) ==
  IF Trim(value) = "" THEN TRUE
  ELSE LET url == ParseURL(value) IN
       IF ~url.ok THEN FALSE
       ELSE LET host == StripWww(url.hostname) IN host = "x.com" \/ host = "twitter.com"

(***************************************************************************)
(* The Draft Store.  The localStorage slot DRAFT_KEY holds null or a       *)
(* string; getItem and setItem may throw.                                  *)
(***************************************************************************)
\* as readDraft, but whatever parses is returned
readDraftUnchecked(slot, throws) ==
  IF throws THEN Null
  ELSE IF ~Truthy(slot) THEN Null
  ELSE LET parsed == JSONParse(slot.v) IN
       IF ~parsed.ok THEN Null ELSE parsed.v

\* readDraft(), given the slot and whether getItem throws
readDraft(slot, throws) ==
  IF throws THEN Null
  ELSE IF ~Truthy(slot) THEN Null
  ELSE LET parsed == JSONParse(slot.v) IN
       IF ~parsed.ok THEN Null
       ELSE IF ~Truthy(parsed.v) \/ ~TypeofObject(parsed.v) THEN Null
       ELSE parsed.v

\* as writeDraft, but a refused write empties the slot
writeDraftClearsOnReject(slot, draft, accepted) ==
  IF accepted THEN Str(JSONStringify(draft)) ELSE Null

\* as writeDraft, but a refused write is stored all the same
writeDraftStoresAnyway(slot, draft, accepted) == Str(JSONStringify(draft))

\* the slot after writeDraft(draft), given whether setItem is accepted
writeDraft(slot, draft, accepted) ==
  IF accepted THEN Str(JSONStringify(draft)) ELSE slot

\* the own enumerable properties an object spread copies
SpreadProps(x) ==
  CASE x.t = "obj" -> x.v
    [] x.t = "arr" -> [k \in {ToString(i - 1) : i \in 1..Len(x.v)} |->
                         x.v[CHOOSE i \in 1..Len(x.v) : ToString(i - 1) = k]]
    [] OTHER -> EmptyProps

(***************************************************************************)
(* Initial values of the editor.                                           *)
(***************************************************************************)
\* defaults, from the host's initialValues (EmptyProps when the prop is absent)
Defaults(initialValues) ==
  [avatarUrl |-> Nullish(Prop(initialValues, "avatarUrl"), Null),
   name |-> Nullish(Prop(initialValues, "name"), Str("")),
   bio |-> Nullish(Prop(initialValues, "bio"), Str("")),
   twitterLink |-> Nullish(Prop(initialValues, "twitterLink"), Str("")),
   streamerMode |-> Bool(Truthy(Nullish(Prop(initialValues, "streamerMode"), Bool(FALSE))))]

\* as Initial, but the bio is left as long as it is
InitialUncut(defaults, draft) == SpreadProps(Nullish(draft, Obj(EmptyProps))) @@ defaults

\* as Initial, but a draft is spread over the built-in defaults, not the host's
InitialDraftOnly(defaults, draft) ==
  LET merged == IF draft = Null THEN defaults
                ELSE SpreadProps(draft) @@ [k \in DOMAIN defaults |->
                                             IF k = "avatarUrl" THEN Null
                                             ELSE IF k = "streamerMode" THEN Bool(FALSE)
                                             ELSE Str("")]
  IN IF IsStr(merged.bio) /\ Len(merged.bio.v) > BIO_MAX
     THEN [merged EXCEPT !.bio = Str(Slice0(merged.bio.v, BIO_MAX))]
     ELSE merged

\* initial: the draft spread over the defaults, the bio cut to BIO_MAX
Initial(defaults, draft) ==
  LET merged == SpreadProps(Nullish(draft, Obj(EmptyProps))) @@ defaults IN
  IF IsStr(merged.bio) /\ Len(merged.bio.v) > BIO_MAX
  THEN [merged EXCEPT !.bio = Str(Slice0(merged.bio.v, BIO_MAX))]
  ELSE merged

(***************************************************************************)
(* State.                                                                  *)
(***************************************************************************)
VARIABLES
  mounted,           \* the host renders the editor
  avatarPreviewUrl,  \* useState: null or a URL string
  name,              \* useState
  bio,               \* useState
  twitterLink,       \* useState
  streamerMode,      \* useState
  errors,            \* useState: own properties among name, bio, twitterLink
  timers,            \* pending window.setTimeout callbacks: <<[elapsed, draft]>>
  storage,           \* localStorage.getItem(DRAFT_KEY): null or a string
  lastWritten,       \* the object of the last setItem the storage accepted, or null
  keyListener,       \* the capture-phase keydown listener is registered
  bodyOverflow,      \* document.body.style.overflow
  prevOverflow,      \* prev, captured by the scroll-lock effect
  nextHandle,        \* number of the next URL createObjectURL returns
  out,               \* the calls the last step made to its collaborators, in order
  closeCalls,        \* onClose invocations since the editor was mounted
  dismissCalls,      \* those of them made for an Escape key or a backdrop pointer-down
  saveFailed,        \* a handleSave since the mount found validation errors
  committed,         \* the payload of the last handleSave whose write was accepted, while
                     \* no field has changed since; else null
  revokes,           \* URL.revokeObjectURL calls so far, per URL
  sessionCreated,    \* URLs createObjectURL returned since the editor was mounted
  mounts,            \* times the editor was mounted
  edits,             \* field edits so far
  sinceChange,       \* milliseconds since the last field change (or the mount)
  burst,             \* field changes so far, each less than DEBOUNCE_MS after the one before
  debWrites,         \* debounced writes since the last field change (or the mount)
  timerMounted,      \* RoundTimer: the host renders the timer
  initialSeconds,    \* RoundTimer: the prop of the last render
  seconds,           \* RoundTimer: useState
  interval,          \* RoundTimer: the running setInterval, with the initialSeconds its
                     \* callback closes over, or none
  effectDue          \* RoundTimer: a render is committed whose effect has not run yet

modalVars ==
  <<mounted, avatarPreviewUrl, name, bio, twitterLink, streamerMode, errors, timers,
    storage, lastWritten, keyListener, bodyOverflow, prevOverflow, nextHandle, out, closeCalls,
    dismissCalls, saveFailed, committed, revokes, sessionCreated, mounts, edits, sinceChange,
    burst, debWrites>>

roundVars == <<timerMounted, initialSeconds, seconds, interval, effectDue>>

vars == <<modalVars, roundVars>>

fieldVars == <<avatarPreviewUrl, name, bio, twitterLink, streamerMode>>

hostVars == <<mounted, keyListener, bodyOverflow, prevOverflow, mounts>>

closeVars == <<closeCalls, dismissCalls>>

storeVars == <<storage, lastWritten>>

timeVars == <<sinceChange, burst, debWrites>>

\* the object both the debounce effect and (before finalizing) handleSave read
Snapshot(a, n, b, l, m) ==
  [avatarUrl |-> a, name |-> n, bio |-> b, twitterLink |-> l, streamerMode |-> m]

Values == Snapshot(avatarPreviewUrl, name, bio, twitterLink, streamerMode)

(***************************************************************************)
(* Calls to collaborators, as recorded in out.                             *)
(***************************************************************************)
WriteCall(by, draft, accepted) ==
  [op |-> "write", by |-> by, draft |-> draft, accepted |-> accepted]

ToastCall == [op |-> "toast", title |-> "Profile settings saved"]

CloseCall == [op |-> "close"]

RevokeCall(url) == [op |-> "revoke", url |-> url]

CreateCall(url) == [op |-> "create", url |-> url]

\* the URL the n-th createObjectURL call returns
BlobUrl(n) == "blob:" \o ToString(n)

\* avatarPreviewUrl?.startsWith("blob:")
IsBlob(url) == IsStr(url) /\ StartsWith(url.v, "blob:")

\* if (url?.startsWith("blob:")) URL.revokeObjectURL(url)
RevokeIfBlob(url) == IF IsBlob(url) THEN <<RevokeCall(url.v)>> ELSE <<>>

RECURSIVE CountRevokes(_, _)
\* revokes after the calls of sequence calls
CountRevokes(count, calls) ==
  IF calls = <<>> THEN count
  ELSE LET c == Head(calls)
           next == IF c.op # "revoke" THEN count
                   ELSE IF c.url \in DOMAIN count THEN [count EXCEPT ![c.url] = @ + 1]
                   ELSE (c.url :> 1) @@ count
       IN CountRevokes(next, Tail(calls))

(***************************************************************************)
(* The debounce effect: its cleanup clears the pending timeout, its body   *)
(* sets a new one that closes over the values of this render.              *)
(***************************************************************************)
\* as ArmTimer, but with no timeout pending none is set
ArmTimerOnlyOverPending(pending, draft) ==
  IF pending = <<>> THEN <<>> ELSE <<[elapsed |-> 0, draft |-> draft]>>

\* as ArmTimer, but the pending timeout is not cleared
ArmTimerKeepsPending(pending, draft) == Append(pending, [elapsed |-> 0, draft |-> draft])

ArmTimer(pending, draft) == <<[elapsed |-> 0, draft |-> draft]>>

\* as Validate, but a bio of BIO_MAX characters is reported too
ValidateBioOffByOne(n, b, l) ==
  LET e1 == IF Trim(n.v) = "" THEN [name |-> Str("Name cannot be empty.")] ELSE EmptyProps
      e2 == IF Len(b.v) >= BIO_MAX
            THEN [bio |-> Str("Bio must be 100 characters or fewer.")] ELSE EmptyProps
      e3 == IF ~isValidTwitterUrl(l.v)
            THEN [twitterLink |-> Str("Enter a valid X/Twitter URL.")] ELSE EmptyProps
  IN e1 @@ e2 @@ e3

\* validate(): the next errors object
Validate(n, b, l) ==
  LET e1 == IF Trim(n.v) = "" THEN [name |-> Str("Name cannot be empty.")] ELSE EmptyProps
      e2 == IF Len(b.v) > BIO_MAX
            THEN [bio |-> Str("Bio must be 100 characters or fewer.")] ELSE EmptyProps
      e3 == IF ~isValidTwitterUrl(l.v)
            THEN [twitterLink |-> Str("Enter a valid X/Twitter URL.")] ELSE EmptyProps
  IN e1 @@ e2 @@ e3

\* as IsValid, but any result lets handleSave go on
IsValidAlways(next) == TRUE

\* validate()'s result: Object.keys(next).length === 0
IsValid(next) == DOMAIN next = {}

\* payload of handleSave
Payload(a, n, b, l, m) ==
  Snapshot(a, Str(Trim(n.v)), Str(Slice0(b.v, BIO_MAX)), Str(Trim(l.v)), m)

\* as ClearError, but every field's error is dropped
ClearErrorAll(errs, f) == IF Truthy(Prop(errs, f)) THEN EmptyProps ELSE errs

\* as ClearError, but the error stays
ClearErrorNever(errs, f) == errs

\* if (errors.f) setErrors((p) => ({ ...p, f: undefined }))
ClearError(errs, f) ==
  IF Truthy(Prop(errs, f)) THEN (f :> Undefined) @@ errs ELSE errs

(***************************************************************************)
(* Init: the page has loaded and the editor is not mounted.                *)
(***************************************************************************)
\* no setInterval is running
NoInterval == [running |-> FALSE]

\* document.body.style.overflow as the page sets it
PageOverflow == "scroll"

InitWith(slots) ==
  /\ mounted = FALSE
  /\ avatarPreviewUrl = Null
  /\ name = Str("")
  /\ bio = Str("")
  /\ twitterLink = Str("")
  /\ streamerMode = Bool(FALSE)
  /\ errors = EmptyProps
  /\ timers = <<>>
  /\ storage \in slots
  /\ lastWritten = Null
  /\ keyListener = FALSE
  /\ bodyOverflow = PageOverflow
  /\ prevOverflow = ""
  /\ nextHandle = 1
  /\ out = <<>>
  /\ closeCalls = 0
  /\ dismissCalls = 0
  /\ saveFailed = FALSE
  /\ committed = Null
  /\ revokes = EmptyProps
  /\ sessionCreated = {}
  /\ mounts = 0
  /\ edits = 0
  /\ sinceChange = 0
  /\ burst = 0
  /\ debWrites = 0
  /\ timerMounted = FALSE
  /\ initialSeconds = 0
  /\ seconds = 0
  /\ interval = NoInterval
  /\ effectDue = FALSE

(***************************************************************************)
(* The host mounts the editor: the first render and its effects.           *)
(***************************************************************************)
FirstRender(initialValues, getItemThrows) ==
  /\ ~mounted
  /\ LET defaults == Defaults(initialValues)
         draft == readDraft(storage, getItemThrows)
         initial == Initial(defaults, draft)
     IN /\ avatarPreviewUrl' = initial.avatarUrl
        /\ name' = initial.name
        /\ bio' = initial.bio
        /\ twitterLink' = initial.twitterLink
        /\ streamerMode' = initial.streamerMode
        /\ timers' = ArmTimer(timers, Snapshot(initial.avatarUrl, initial.name, initial.bio,
                                               initial.twitterLink, initial.streamerMode))
  /\ mounted' = TRUE
  /\ errors' = EmptyProps
  /\ keyListener' = TRUE
  /\ prevOverflow' = bodyOverflow
  /\ bodyOverflow' = "hidden"
  /\ mounts' = mounts + 1
  /\ out' = <<>>
  /\ closeCalls' = 0
  /\ dismissCalls' = 0
  /\ saveFailed' = FALSE
  /\ sessionCreated' = {}
  /\ committed' = Null
  /\ sinceChange' = 0
  /\ burst' = 0
  /\ debWrites' = 0
  /\ UNCHANGED <<roundVars, storeVars, nextHandle, revokes, edits>>

Mount(initialValues, getItemThrows) ==
  /\ mounts < MaxMounts
  /\ FirstRender(initialValues, getItemThrows)

(***************************************************************************)
(* The host unmounts the editor: every effect's cleanup runs.              *)
(***************************************************************************)
\* as UnmountCleanup, but nothing is revoked
UnmountCleanupNone(url) == <<>>

\* the avatar effect's cleanup
UnmountCleanup(url) == RevokeIfBlob(url)

\* as ClearTimeout, but the pending timeouts stay
ClearTimeoutNever(pending) == pending

\* the debounce effect's cleanup: window.clearTimeout(t)
ClearTimeout(pending) == <<>>

\* as ScrollUnlock, but the style is emptied
ScrollUnlockEmpties(prev) == ""

\* the scroll-lock effect's cleanup: document.body.style.overflow = prev
ScrollUnlock(prev) == prev

Unmount ==
  /\ mounted
  /\ mounted' = FALSE
  /\ keyListener' = FALSE
  /\ bodyOverflow' = ScrollUnlock(prevOverflow)
  /\ prevOverflow' = ""
  /\ out' = UnmountCleanup(avatarPreviewUrl)
  /\ revokes' = CountRevokes(revokes, out')
  /\ timers' = ClearTimeout(timers)
  /\ avatarPreviewUrl' = Null
  /\ name' = Str("")
  /\ bio' = Str("")
  /\ twitterLink' = Str("")
  /\ streamerMode' = Bool(FALSE)
  /\ errors' = EmptyProps
  /\ closeCalls' = 0
  /\ dismissCalls' = 0
  /\ saveFailed' = FALSE
  /\ sinceChange' = 0
  /\ burst' = 0
  /\ debWrites' = 0
  /\ UNCHANGED <<roundVars, storeVars, nextHandle, sessionCreated, mounts, edits, committed>>

(***************************************************************************)
(* A render with a changed field state re-runs the debounce effect.        *)
(***************************************************************************)
Rearm(draft) ==
  /\ timers' = ArmTimer(timers, draft)
  /\ burst' = IF burst > 0 /\ sinceChange < DEBOUNCE_MS THEN burst + 1 ELSE 1
  /\ sinceChange' = 0
  /\ debWrites' = 0
  /\ committed' = Null

(***************************************************************************)
(* Field edits.  Each changes one state and clears that field's error.     *)
(***************************************************************************)
Edited ==
  /\ edits' = edits + 1
  /\ out' = <<>>
  /\ UNCHANGED <<roundVars, hostVars, closeVars, saveFailed, storeVars, nextHandle, revokes,
                 sessionCreated>>

SetName(v) ==
  /\ mounted /\ edits < MaxEdits
  /\ Str(v) # name
  /\ name' = Str(v)
  /\ errors' = ClearError(errors, "name")
  /\ Rearm(Snapshot(avatarPreviewUrl, Str(v), bio, twitterLink, streamerMode))
  /\ UNCHANGED <<avatarPreviewUrl, bio, twitterLink, streamerMode>>
  /\ Edited

SetBio(v) ==
  /\ mounted /\ edits < MaxEdits
  /\ Str(v) # bio
  /\ bio' = Str(v)
  /\ errors' = ClearError(errors, "bio")
  /\ Rearm(Snapshot(avatarPreviewUrl, name, Str(v), twitterLink, streamerMode))
  /\ UNCHANGED <<avatarPreviewUrl, name, twitterLink, streamerMode>>
  /\ Edited

SetTwitterLink(v) ==
  /\ mounted /\ edits < MaxEdits
  /\ Str(v) # twitterLink
  /\ twitterLink' = Str(v)
  /\ errors' = ClearError(errors, "twitterLink")
  /\ Rearm(Snapshot(avatarPreviewUrl, name, bio, Str(v), streamerMode))
  /\ UNCHANGED <<avatarPreviewUrl, name, bio, streamerMode>>
  /\ Edited

ToggleStreamerMode ==
  /\ mounted /\ edits < MaxEdits
  /\ streamerMode' = Bool(~Truthy(streamerMode))
  /\ Rearm(Snapshot(avatarPreviewUrl, name, bio, twitterLink, Bool(~Truthy(streamerMode))))
  /\ UNCHANGED <<avatarPreviewUrl, name, bio, twitterLink, errors>>
  /\ Edited

(***************************************************************************)
(* handleUploadChange, and the avatar effect's cleanup that the re-render  *)
(* with the new URL runs (it closes over the URL of the previous render).  *)
(***************************************************************************)
\* as ReplaceRevokes, but the old URL is revoked by the effect's cleanup only
ReplaceRevokesCleanupOnly(old) == [handler |-> <<>>, cleanup |-> RevokeIfBlob(old)]

\* the revokeObjectURL calls of one replacement of preview URL old
ReplaceRevokes(old) == [handler |-> RevokeIfBlob(old), cleanup |-> RevokeIfBlob(old)]

HandleUploadChange(hasFile, createThrows) ==
  /\ mounted
  /\ IF ~hasFile
     THEN /\ out' = <<>>
          /\ UNCHANGED <<fieldVars, timers, nextHandle, revokes, sessionCreated, timeVars,
                         committed>>
     ELSE IF createThrows
     THEN /\ \A u \in DOMAIN revokes : revokes[u] < MaxRevokes
          /\ out' = ReplaceRevokes(avatarPreviewUrl).handler
          /\ revokes' = CountRevokes(revokes, out')
          /\ UNCHANGED <<fieldVars, timers, nextHandle, sessionCreated, timeVars, committed>>
     ELSE /\ nextHandle <= MaxHandles
          /\ LET url == BlobUrl(nextHandle)
                 rv == ReplaceRevokes(avatarPreviewUrl)
             IN /\ avatarPreviewUrl' = Str(url)
                /\ out' = rv.handler \o <<CreateCall(url)>> \o rv.cleanup
                /\ sessionCreated' = sessionCreated \cup {url}
                /\ Rearm(Snapshot(Str(url), name, bio, twitterLink, streamerMode))
          /\ revokes' = CountRevokes(revokes, out')
          /\ nextHandle' = nextHandle + 1
          /\ UNCHANGED <<name, bio, twitterLink, streamerMode>>
  /\ UNCHANGED <<roundVars, hostVars, closeVars, saveFailed, errors, storeVars, edits>>

(***************************************************************************)
(* handleSave.                                                             *)
(***************************************************************************)
\* as SaveCalls, but onClose is called first
SaveCallsCloseFirst(payload, accepted) ==
  <<CloseCall, WriteCall("save", payload, accepted), ToastCall>>

\* the calls handleSave makes after validate() returned true
SaveCalls(payload, accepted) == <<WriteCall("save", payload, accepted), ToastCall, CloseCall>>

HandleSave(accepted) ==
  /\ mounted
  /\ LET next == Validate(name, bio, twitterLink) IN
     /\ errors' = next
     /\ IF ~IsValid(next)
        THEN /\ out' = <<>>
             /\ saveFailed' = TRUE
             /\ UNCHANGED <<storeVars, closeCalls, committed>>
        ELSE /\ closeCalls < MaxCloseCalls
             /\ LET payload == Payload(avatarPreviewUrl, name, bio, twitterLink, streamerMode)
                IN /\ storage' = writeDraft(storage, payload, accepted)
                   /\ lastWritten' = IF accepted THEN Obj(payload) ELSE lastWritten
                   /\ committed' = IF accepted THEN Obj(payload) ELSE Null
                   /\ out' = SaveCalls(payload, accepted)
             /\ closeCalls' = closeCalls + 1
             /\ UNCHANGED saveFailed
  /\ UNCHANGED <<roundVars, hostVars, fieldVars, timers, nextHandle, dismissCalls, revokes,
                 sessionCreated, edits, timeVars>>

(***************************************************************************)
(* Time passes; a timeout whose delay has elapsed runs its callback.       *)
(***************************************************************************)
Tick ==
  /\ mounted
  /\ sinceChange < DEBOUNCE_MS
  /\ sinceChange' = Min(sinceChange + TickMs, DEBOUNCE_MS)
  /\ timers' = [i \in 1..Len(timers) |->
                  [timers[i] EXCEPT !.elapsed = Min(@ + TickMs, DEBOUNCE_MS)]]
  /\ out' = <<>>
  /\ UNCHANGED <<roundVars, hostVars, fieldVars, closeVars, saveFailed, committed, errors, storeVars, nextHandle,
                 revokes, sessionCreated, edits, burst, debWrites>>

\* a timeout may run once its delay has elapsed
TimerDue(t) == t.elapsed >= DEBOUNCE_MS

DebounceFire(accepted) ==
  /\ \E i \in 1..Len(timers) :
       /\ TimerDue(timers[i])
       /\ storage' = writeDraft(storage, timers[i].draft, accepted)
       /\ lastWritten' = IF accepted THEN Obj(timers[i].draft) ELSE lastWritten
       /\ out' = <<WriteCall("debounce", timers[i].draft, accepted)>>
       /\ timers' = SubSeq(timers, 1, i - 1) \o SubSeq(timers, i + 1, Len(timers))
  /\ debWrites' = debWrites + 1
  /\ UNCHANGED <<roundVars, hostVars, fieldVars, closeVars, saveFailed, committed, errors, nextHandle, revokes,
                 sessionCreated, edits, sinceChange, burst>>

(***************************************************************************)
(* Dismissal: the Escape keydown listener, handleBackdropMouseDown and the *)
(* close button all call the host's onClose.                               *)
(***************************************************************************)
CallOnClose ==
  /\ mounted
  /\ closeCalls < MaxCloseCalls
  /\ out' = <<CloseCall>>
  /\ closeCalls' = closeCalls + 1
  /\ UNCHANGED <<roundVars, hostVars, fieldVars, saveFailed, committed, errors, timers, storeVars, nextHandle,
                 revokes, sessionCreated, edits, timeVars>>

\* onKeyDown, for a keydown of key
OnKeyDown(key) ==
  /\ keyListener
  /\ IF key = "Escape"
     THEN CallOnClose /\ dismissCalls' = dismissCalls + 1
     ELSE /\ mounted
          /\ out' = <<>>
          /\ UNCHANGED <<roundVars, hostVars, fieldVars, closeVars, saveFailed, committed, errors, timers, storeVars,
                         nextHandle, revokes, sessionCreated, edits, timeVars>>

HandleBackdropMouseDown(inside) ==
  IF inside
  THEN /\ mounted
       /\ out' = <<>>
       /\ UNCHANGED <<roundVars, hostVars, fieldVars, closeVars, saveFailed, committed, errors, timers, storeVars,
                      nextHandle, revokes, sessionCreated, edits, timeVars>>
  ELSE CallOnClose /\ dismissCalls' = dismissCalls + 1

CloseClick == CallOnClose /\ UNCHANGED dismissCalls

(***************************************************************************)
(* Inputs.                                                                 *)
(***************************************************************************)
Bio100 == "x" \o Rep("a", 99)

Bio101 == Bio100 \o "b"

Bio105 == Bio100 \o "bcdef"

ValidLink == "https://x.com/nova"

\* a draft the editor of an earlier page load left behind: its debounced write
\* of an uploaded preview URL, an untrimmed name and a bio over the limit
StaleDraft == Snapshot(Str("blob:0"), Str(" Nova "), Str(Bio105), Str(""), Bool(TRUE))

(***************************************************************************)
(* Spec: an editing session with time: the editor is mounted, fields are   *)
(* edited, avatars uploaded, the draft is written by the debounce timer    *)
(* and by save, and the editor is unmounted.                               *)
(***************************************************************************)
NameInputs == {" Nova "}

BioInputs == {Bio105}

LinkInputs == {ValidLink}

\* initialValues the host may pass (EmptyProps: the prop is absent)
HostInitials ==
  {EmptyProps, [name |-> Str("Host"), bio |-> Str("Hello"), avatarUrl |-> Str("blob:host")]}

\* what the storage slot may hold when the page loads
InitialSlots == {Null, Str(JSONStringify(StaleDraft))}

Init == InitWith(InitialSlots)

Next ==
  \/ \E iv \in HostInitials : Mount(iv, FALSE)
  \/ Unmount
  \/ \E v \in NameInputs : SetName(v)
  \/ \E v \in BioInputs : SetBio(v)
  \/ \E v \in LinkInputs : SetTwitterLink(v)
  \/ ToggleStreamerMode
  \/ \E hasFile \in BOOLEAN : HandleUploadChange(hasFile, FALSE)
  \/ HandleSave(TRUE)
  \/ Tick
  \/ DebounceFire(TRUE)

Spec == Init /\ [][Next]_vars

(***************************************************************************)
(* SpecDismiss: the ways out of the editor: the Escape key, a pointer-down *)
(* on the backdrop, the close button and save.                             *)
(***************************************************************************)
InitDismiss == InitWith({Null})

NextDismiss ==
  \/ \E iv \in HostInitials : Mount(iv, FALSE)
  \/ Unmount
  \/ \E v \in NameInputs : SetName(v)
  \/ ToggleStreamerMode
  \/ HandleSave(TRUE)
  \/ \E key \in {"Escape", "Enter"} : OnKeyDown(key)
  \/ \E inside \in BOOLEAN : HandleBackdropMouseDown(inside)
  \/ CloseClick

SpecDismiss == InitDismiss /\ [][NextDismiss]_vars

(***************************************************************************)
(* SpecSave: validation and save over names, bios and links on both sides  *)
(* of every rule.                                                          *)
(***************************************************************************)
SaveNames == {"", "  ", "Nova", " Nova "}

SaveBios == {Bio100, Bio101, Bio105}

SaveLinks == {"   ", " https://twitter.com/nova ", "https://example.com/nova"}

SaveHosts ==
  {EmptyProps,
   [name |-> Str("Nova"), twitterLink |-> Str(ValidLink), avatarUrl |-> Str("/avatars/nova.png")]}

InitSave == InitWith({Null})

NextSave ==
  \/ \E iv \in SaveHosts : Mount(iv, FALSE)
  \/ Unmount
  \/ \E v \in SaveNames : SetName(v)
  \/ \E v \in SaveBios : SetBio(v)
  \/ \E v \in SaveLinks : SetTwitterLink(v)
  \/ ToggleStreamerMode
  \/ HandleUploadChange(TRUE, FALSE)
  \/ \E accepted \in BOOLEAN : HandleSave(accepted)

SpecSave == InitSave /\ [][NextSave]_vars

(***************************************************************************)
(* SpecLink: the link rule over URLs put together from schemes, hosts and  *)
(* what follows the host.                                                  *)
(***************************************************************************)
LinkSchemes == {"https://", "HTTP://", "https:", "ftp://", "foo://", "mailto:", ""}

LinkHosts ==
  {"x.com", "twitter.com", "www.x.com", "www.twitter.com", "WWW.X.COM", "www.www.x.com",
   "wwwx.com", "x.com.evil.com", "mobile.twitter.com", "example.com", "nova@x.com",
   "x.com@example.com", "twitter.com:8080", "x .com", ""}

LinkRests == {"", "/x.com", "?next=x.com"}

LinkUniverse ==
  {"", "   ", "x", "https://example.com/x", "https://www.x.com/handle",
   "https://twitter.com/handle", " https://x.com/nova ", "\thttps://www.twitter.com\n",
   " https://example.com "}
  \cup {s \o h \o r : s \in LinkSchemes, h \in LinkHosts, r \in LinkRests}

InitLink == InitWith({Null})

NextLink ==
  \/ Mount(EmptyProps, FALSE)
  \/ Unmount
  \/ \E v \in LinkUniverse : SetTwitterLink(v)
  \/ HandleSave(TRUE)

SpecLink == InitLink /\ [][NextLink]_vars

(***************************************************************************)
(* SpecStore: the draft store under names and bios with the characters     *)
(* JSON escapes, a storage that may refuse a write, and a getItem that may *)
(* throw.                                                                  *)
(***************************************************************************)
StoreNames == {"No\"va", "C:\\nova\\"}

StoreBios == {"line one\nline two\t.", "{\"name\":\"x\"}"}

StoreHosts == {EmptyProps, [name |-> Str("\\\"Nova\\\""), avatarUrl |-> Str("/avatars/nova.png")]}

InitStore == InitWith({Null, Str("null"), Str("{\"bio\":\"a\\\\\\\"b\"")})

NextStore ==
  \/ \E iv \in StoreHosts, throws \in BOOLEAN : Mount(iv, throws)
  \/ Unmount
  \/ \E v \in StoreNames : SetName(v)
  \/ \E v \in StoreBios : SetBio(v)
  \/ ToggleStreamerMode
  \/ \E accepted \in BOOLEAN : HandleSave(accepted)
  \/ Tick
  \/ \E accepted \in BOOLEAN : DebounceFire(accepted)

SpecStore == InitStore /\ [][NextStore]_vars

(***************************************************************************)
(* SpecInit: the first render over stored records that are absent, empty,  *)
(* not JSON, JSON but no object, or objects with some of the fields, and   *)
(* over host values with some of the fields.                               *)
(***************************************************************************)
\* slots readDraft makes nothing of
BadSlots ==
  {Null, Str(""), Str("{"), Str("nova"), Str("{\"name\":\"x\",}"), Str("{\"name\":\"x"),
   Str("null"), Str("42"), Str("0"), Str("\"text\""), Str("true"), Str("false")}

\* stored objects: the text in the slot and the own properties it stands for
InitRecords ==
  {[text |-> "{}", fields |-> EmptyProps],
   [text |-> "[\"x\"]", fields |-> EmptyProps],
   [text |-> "{\"name\":\"Draft\"}", fields |-> [name |-> Str("Draft")]],
   [text |-> "{\"bio\":\"" \o Bio105 \o "\",\"streamerMode\":true}",
    fields |-> [bio |-> Str(Bio105), streamerMode |-> Bool(TRUE)]],
   [text |-> "{\"avatarUrl\":null,\"twitterLink\":\"https://x.com/d\",\"theme\":\"dark\"}",
    fields |-> [avatarUrl |-> Null, twitterLink |-> Str("https://x.com/d")]],
   [text |-> " {\"avatarUrl\":\"/d.png\",\"name\":\"D\",\"bio\":\"B\",\"twitterLink\":\"\",\"streamerMode\":false} ",
    fields |-> [avatarUrl |-> Str("/d.png"), name |-> Str("D"), bio |-> Str("B"),
                twitterLink |-> Str(""), streamerMode |-> Bool(FALSE)]]}

InitHosts ==
  {EmptyProps,
   [name |-> Str("Host")],
   [name |-> Null, bio |-> Undefined, streamerMode |-> Bool(TRUE)],
   [avatarUrl |-> Str("/h.png"), name |-> Str("Host"), bio |-> Str(Bio101),
    twitterLink |-> Str(ValidLink), streamerMode |-> Bool(TRUE)]}

InitInit == InitWith(BadSlots \cup {Str(r.text) : r \in InitRecords})

NextInit ==
  \/ \E iv \in InitHosts, throws \in BOOLEAN : Mount(iv, throws)
  \/ Unmount
  \/ \E v \in NameInputs : SetName(v)
  \/ ToggleStreamerMode
  \/ HandleSave(TRUE)

SpecInit == InitInit /\ [][NextInit]_vars

(***************************************************************************)
(* SpecUpload: avatar uploads in which createObjectURL may throw.          *)
(***************************************************************************)
InitUpload == InitWith({Null})

NextUpload ==
  \/ \E iv \in HostInitials : Mount(iv, FALSE)
  \/ Unmount
  \/ \E v \in NameInputs : SetName(v)
  \/ \E hasFile, createThrows \in BOOLEAN : HandleUploadChange(hasFile, createThrows)
  \/ HandleSave(TRUE)
  \/ Tick
  \/ DebounceFire(TRUE)

SpecUpload == InitUpload /\ [][NextUpload]_vars

(***************************************************************************)
(* SpecOpen: the editor is opened and left to itself or edited, with time  *)
(* passing and due timeouts run as the browser's event loop does: while    *)
(* the editor is mounted the clock goes on, and a timeout whose delay has  *)
(* elapsed is run.                                                         *)
(***************************************************************************)
InitOpen == InitWith(InitialSlots)

\* some due timeout runs
TimeoutRuns == \E accepted \in BOOLEAN : DebounceFire(accepted)

NextOpen ==
  \/ \E iv \in HostInitials : Mount(iv, FALSE)
  \/ Unmount
  \/ \E v \in NameInputs : SetName(v)
  \/ ToggleStreamerMode
  \/ Tick
  \/ TimeoutRuns

SpecOpen == InitOpen /\ [][NextOpen]_vars /\ WF_vars(Tick) /\ WF_vars(TimeoutRuns)

(***************************************************************************)
(* SpecReopen: the editor is opened, used, closed and opened again in the  *)
(* same page load, over a storage that may refuse a write.                 *)
(***************************************************************************)
ReopenNames == {" Nova "}

ReopenHosts == {EmptyProps, [name |-> Str("Host"), bio |-> Str("Hello")]}

\* a draft an earlier page load left behind
OldDraft == Snapshot(Null, Str("Old"), Str(""), Str(""), Bool(FALSE))

InitReopen == InitWith({Null, Str(JSONStringify(OldDraft))})

MountAgain(initialValues, getItemThrows) ==
  /\ mounts < MaxSessions
  /\ FirstRender(initialValues, getItemThrows)

NextReopen ==
  \/ \E iv \in ReopenHosts : MountAgain(iv, FALSE)
  \/ Unmount
  \/ \E v \in ReopenNames : SetName(v)
  \/ ToggleStreamerMode
  \/ \E accepted \in BOOLEAN : HandleSave(accepted)
  \/ Tick
  \/ \E accepted \in BOOLEAN : DebounceFire(accepted)
  \/ OnKeyDown("Escape")

SpecReopen == InitReopen /\ [][NextReopen]_vars

(***************************************************************************)
(* What the specification says of validation and of the finalized          *)
(* snapshot, stated without the operators that model the code.             *)
(***************************************************************************)
\* s consists of white space only (its trimmed form is empty)
Blank(s) == CharsOf(s) \subseteq WhiteSpace

\* r is s without its leading and trailing white space
IsTrimOf(r, s) ==
  /\ r = "" \/ (Char(r, 1) \notin WhiteSpace /\ Char(r, Len(r)) \notin WhiteSpace)
  /\ \E i \in 1..(Len(s) + 1) :
       /\ Blank(SubSeq(s, 1, i - 1))
       /\ SubSeq(s, i, i + Len(r) - 1) = r
       /\ Blank(SubSeq(s, i + Len(r), Len(s)))

AllowedHosts == {"x.com", "twitter.com"}

\* validateSocialLink succeeds on v
LinkValid(v) ==
  \/ Blank(v)
  \/ LET url == ParseURL(v) IN
     url.ok /\ url.hostname \in AllowedHosts \cup {"www." \o h : h \in AllowedHosts}

\* the fields validateAll reports for a name, a bio and a link
FailingFields(n, b, l) ==
  {f \in {"name"} : Blank(n)} \cup {f \in {"bio"} : Len(b) > 100}
    \cup {f \in {"twitterLink"} : ~LinkValid(l)}

\* the fields errs reports
Reported(errs) == {f \in DOMAIN errs : Truthy(errs[f])}

\* some handleSave
SaveStep == \E accepted \in BOOLEAN : HandleSave(accepted)

\* the calls are those of one commit: a write, then a toast, then onClose
IsCommit(calls) ==
  /\ Len(calls) = 3
  /\ calls[1].op = "write" /\ calls[1].by = "save"
  /\ calls[2].op = "toast"
  /\ calls[3].op = "close"

\* what the storage slot holds, as the editor would read it now
Stored == readDraft(storage, FALSE)

\* the URLs created in the session that no revokeObjectURL call has named
Live == {u \in sessionCreated : u \notin DOMAIN revokes}

\* the value the editor starts with for field k: the stored draft's own
\* properties d first, then the host's initialValues iv, then the built-in one
BuiltIn ==
  [avatarUrl |-> Null, name |-> Str(""), bio |-> Str(""), twitterLink |-> Str(""),
   streamerMode |-> Bool(FALSE)]

Merged(d, iv, k) ==
  IF k \in DOMAIN d THEN d[k]
  ELSE IF k \in DOMAIN iv /\ iv[k] \notin {Null, Undefined} THEN iv[k]
  ELSE BuiltIn[k]

StartsWithField(d, iv, k) ==
  LET m == Merged(d, iv, k) IN
  IF k = "bio" /\ m.t = "str" /\ Len(m.v) > 100 THEN Str(SubSeq(m.v, 1, 100)) ELSE m

(***************************************************************************)
(* C1.  A save in a state where validateAll(values) is not empty sets the  *)
(* errors to that result and does nothing else: it calls neither the draft *)
(* store, nor the toast, nor onClose, and it leaves the fields, the timer  *)
(* and the storage slot as they are.                                       *)
(***************************************************************************)
C1_FailingSaveOnlySetsErrors ==
  [][SaveStep /\ FailingFields(name.v, bio.v, twitterLink.v) # {}
       => /\ Reported(errors') = FailingFields(name.v, bio.v, twitterLink.v)
          /\ DOMAIN errors' = Reported(errors')
          /\ out' = <<>>
          /\ UNCHANGED <<hostVars, fieldVars, closeVars, timers, storage, nextHandle,
                         revokes, sessionCreated>>]_vars

\* the scenario of the specification: no draft, the defaults, save with an empty name
C1_Witness ==
  /\ mounted /\ saveFailed
  /\ name = Str("") /\ bio = Str("") /\ twitterLink = Str("")
  /\ errors = [name |-> Str("Name cannot be empty.")]
  /\ out = <<>> /\ closeCalls = 0 /\ storage = Null

(***************************************************************************)
(* C2.  A save in a state where validateAll(values) is empty makes exactly *)
(* three calls, in this order: one draft-store write of the finalized      *)
(* snapshot (the name and the link trimmed, the bio at most 100 characters *)
(* long, the avatar and the toggle as they are), one success toast, one    *)
(* onClose.                                                                *)
(***************************************************************************)
C2_SuccessfulSaveCommitsOnce ==
  [][SaveStep /\ FailingFields(name.v, bio.v, twitterLink.v) = {}
       => /\ IsCommit(out')
          /\ LET d == out'[1].draft IN
             /\ IsTrimOf(d.name.v, name.v)
             /\ IsTrimOf(d.twitterLink.v, twitterLink.v)
             /\ Len(d.bio.v) <= 100 /\ d.bio = bio
             /\ d.avatarUrl = avatarPreviewUrl
             /\ d.streamerMode = streamerMode
             /\ out'[1].accepted => storage' = Str(JSONStringify(d))
          /\ closeCalls' = closeCalls + 1]_vars

\* a commit of an untrimmed name and link, with an uploaded avatar
C2_Witness ==
  /\ IsCommit(out)
  /\ name = Str(" Nova ") /\ out[1].draft.name = Str("Nova")
  /\ twitterLink = Str(" https://twitter.com/nova ")
  /\ out[1].draft.twitterLink = Str("https://twitter.com/nova")
  /\ IsBlob(avatarPreviewUrl) /\ out[1].draft.avatarUrl = avatarPreviewUrl
  /\ closeCalls = 1

(***************************************************************************)
(* C3.  Debounce coalescing.  While the editor is mounted, the changes of  *)
(* a burst leave exactly one write: either one timeout is pending and no   *)
(* debounced write was made since the last change, or none is pending and  *)
(* exactly one was made.  The pending timeout holds the snapshot after the *)
(* last change and has run as long as the time since that change; a        *)
(* debounced write is made only 150 ms or more after the last change, and  *)
(* what it writes is the snapshot after the last change.                   *)
(***************************************************************************)
C3_DebounceCoalesces ==
  mounted =>
    /\ Len(timers) + debWrites = 1
    /\ \A i \in 1..Len(timers) :
         timers[i].draft = Values /\ timers[i].elapsed = sinceChange
    /\ debWrites > 0 => sinceChange >= DEBOUNCE_MS
    /\ \A i \in 1..Len(out) :
         out[i].op = "write" /\ out[i].by = "debounce"
           => out[i].draft = Values /\ debWrites = 1 /\ Len(out) = 1

\* two changes less than 150 ms apart, then the one write
C3_Witness ==
  /\ mounted /\ burst = 2 /\ debWrites = 1
  /\ out = <<WriteCall("debounce", Values, TRUE)>>
  /\ storage = Str(JSONStringify(Values))

(***************************************************************************)
(* C4.  No double release (the claim as the specification states it):      *)
(* every preview URL createObjectURL returned in this session has been     *)
(* revoked exactly once, except the one the mounted editor shows, which    *)
(* has not been revoked.                                                   *)
(***************************************************************************)
C4_ReleasedExactlyOnce ==
  \A u \in sessionCreated :
    LET n == IF u \in DOMAIN revokes THEN revokes[u] ELSE 0 IN
    IF mounted /\ avatarPreviewUrl = Str(u) THEN n = 0 ELSE n = 1

(***************************************************************************)
(* C5.  Only session-created handles are released (the claim as the        *)
(* specification states it): every URL a step revokes is one that          *)
(* createObjectURL returned in this session.                               *)
(***************************************************************************)
C5_OnlySessionHandlesReleased ==
  \A i \in 1..Len(out) : out[i].op = "revoke" => out[i].url \in sessionCreated

(***************************************************************************)
(* C6.  Dismissal is idempotent (the claim as the specification states     *)
(* it): while the editor is mounted, the Escape keys and the pointer-downs *)
(* outside the modal have called onClose at most once.                     *)
(***************************************************************************)
C6_DismissalIdempotent == mounted => dismissCalls <= 1

(***************************************************************************)
(* C7.  When the editor is mounted over a stored draft whose bio is longer *)
(* than 100 characters, its bio is the first 100 characters of that bio;   *)
(* a merged bio (the draft's, else the host's, else "") of at most 100     *)
(* characters is the editor's bio as it is.                                *)
(***************************************************************************)
C7_BioCutOnLoad ==
  [][\A iv \in HostInitials :
       Mount(iv, FALSE)
         => LET merged == IF Stored.t = "obj" /\ "bio" \in DOMAIN Stored.v
                          THEN Stored.v.bio
                          ELSE Nullish(Prop(iv, "bio"), Str(""))
            IN IF Len(merged.v) > 100
               THEN Len(bio'.v) = 100 /\ bio'.v = SubSeq(merged.v, 1, 100)
               ELSE bio' = merged]_vars

\* just mounted over the stale draft: the 105 characters are cut to the first 100
C7_Witness ==
  /\ mounted /\ edits = 0 /\ burst = 0
  /\ Stored.t = "obj" /\ Stored.v.bio = Str(Bio105)
  /\ bio = Str(Bio100)

(***************************************************************************)
(* C8.  A save commits if and only if validateAll(values) is empty, and    *)
(* the errors it sets are those of exactly the failing fields: the name    *)
(* iff it is blank, the bio iff it is longer than 100 characters, the link *)
(* iff validateSocialLink fails.  A save that does not commit calls        *)
(* onClose not at all, one that commits calls it once, and the record it   *)
(* persists has a bio of at most 100 characters.                           *)
(***************************************************************************)
C8_CommitIffValid ==
  [][SaveStep
       => LET failing == FailingFields(name.v, bio.v, twitterLink.v) IN
          /\ Reported(errors') = failing
          /\ IsCommit(out') <=> failing = {}
          /\ failing # {} => out' = <<>> /\ UNCHANGED <<closeCalls, storage>>
          /\ failing = {} => closeCalls' = closeCalls + 1
          /\ IsCommit(out') /\ out'[1].accepted
               => readDraft(storage', FALSE).v.bio = bio /\ Len(bio.v) <= 100]_vars

\* the scenario of the specification: name "Nova" and a valid link from the host,
\* a bio over the limit, a save that fails, the bio cut to 100 characters, a save
\* that commits
C8_Witness ==
  /\ mounted /\ saveFailed /\ edits = 2
  /\ name = Str("Nova") /\ twitterLink = Str(ValidLink) /\ bio = Str(Bio100)
  /\ IsCommit(out) /\ out[1].accepted
  /\ errors = EmptyProps
  /\ Stored.v.bio = Str(Bio100) /\ Len(Stored.v.bio.v) = 100
  /\ closeCalls = 1

(***************************************************************************)
(* C9.  The link rule: handleSave reports the link iff it is not blank and *)
(* either does not parse as a URL or parses to a hostname that, with one   *)
(* leading "www." removed, is neither x.com nor twitter.com.  The examples *)
(* of the specification come out as it says.                               *)
(***************************************************************************)
C9_LinkRule ==
  [][HandleSave(TRUE)
       => /\ ("twitterLink" \in Reported(errors')) <=> ~LinkValid(twitterLink.v)
          /\ isValidTwitterUrl(twitterLink.v) <=> LinkValid(twitterLink.v)
          /\ \A v \in {"", "   ", "https://www.x.com/handle", "https://twitter.com/handle"} :
               isValidTwitterUrl(v)
          /\ ~isValidTwitterUrl("https://example.com/x")]_vars

\* a save has reported a link that parses, to a hostname that is allowed only
\* once "www." is removed twice
C9_Witness ==
  /\ mounted /\ saveFailed
  /\ twitterLink = Str("https://www.www.x.com")
  /\ ParseURL(twitterLink.v) = UrlOk("www.www.x.com")
  /\ Reported(errors) = {"name", "twitterLink"}

(***************************************************************************)
(* C10.  Round trip of the draft store: after a step whose write the       *)
(* storage accepted, readDraft() returns an object with exactly the fields *)
(* of the written snapshot, each equal to the written one.                 *)
(***************************************************************************)
C10_RoundTrip ==
  \A i \in 1..Len(out) :
    out[i].op = "write" /\ out[i].accepted
      => /\ Stored.t = "obj"
         /\ DOMAIN Stored.v = DOMAIN out[i].draft
         /\ \A k \in DOMAIN out[i].draft : Stored.v[k] = out[i].draft[k]

\* a snapshot with a quote, backslashes, a line feed and a tab was written and read
C10_Witness ==
  /\ Len(out) > 0 /\ out[1].op = "write" /\ out[1].accepted
  /\ out[1].draft.name = Str("C:\\nova\\")
  /\ out[1].draft.bio = Str("line one\nline two\t.")
  /\ out[1].draft.avatarUrl = Null
  /\ Stored = Obj(out[1].draft)

(***************************************************************************)
(* C11.  Cancellation on unmount: every step that leaves the editor        *)
(* unmounted leaves no timeout pending and the storage slot as it was, so  *)
(* no debounced write follows the unmount and the stored draft stays what  *)
(* it was when the editor was unmounted.                                   *)
(***************************************************************************)
C11_UnmountCancelsTimer ==
  [][~mounted' => timers' = <<>> /\ storage' = storage]_vars

\* unmounted after an edit, with no write ever made: the timeout the edit set
\* was pending at the unmount and has not run
C11_Witness ==
  /\ ~mounted /\ mounts > 0 /\ edits > 0
  /\ timers = <<>> /\ storage = Null

(***************************************************************************)
(* C12.  No leak on abandonment: once the editor is unmounted, every URL   *)
(* createObjectURL returned in the session has been revoked, whether a     *)
(* save committed or not.                                                  *)
(***************************************************************************)
C12_NoLeakAfterTeardown ==
  ~mounted => \A u \in sessionCreated : u \in DOMAIN revokes /\ revokes[u] >= 1

\* unmounted with two URLs created and nothing ever written: no save committed
C12_Witness ==
  /\ ~mounted /\ storage = Null
  /\ sessionCreated = {BlobUrl(1), BlobUrl(2)}
  /\ \A u \in sessionCreated : u \in DOMAIN revokes

(***************************************************************************)
(* C13.  The draft is never deleted: a step that finds a record in the     *)
(* storage slot leaves a record there, the slot changes only by a write    *)
(* the storage accepted, to the text of the written snapshot, and an open  *)
(* after an accepted write starts from the fields of the snapshot last     *)
(* written (its bio cut to 100 characters).                                *)
(***************************************************************************)
C13_DraftNeverDeleted ==
  [][/\ storage # Null => storage' # Null
     /\ storage' # storage
          => \E i \in 1..Len(out') :
               /\ out'[i].op = "write" /\ out'[i].accepted
               /\ storage' = Str(JSONStringify(out'[i].draft))
               /\ lastWritten' = Obj(out'[i].draft)
     /\ (\E iv \in ReopenHosts : MountAgain(iv, FALSE)) /\ lastWritten # Null
          => /\ avatarPreviewUrl' = lastWritten.v.avatarUrl
             /\ name' = lastWritten.v.name
             /\ bio'.v = SubSeq(lastWritten.v.bio.v, 1, Min(Len(lastWritten.v.bio.v), 100))
             /\ twitterLink' = lastWritten.v.twitterLink
             /\ streamerMode' = lastWritten.v.streamerMode]_vars

\* opened again over the draft the first session wrote by its debounce timer,
\* after a save the storage refused and an unmount
C13_Witness ==
  /\ mounted /\ mounts = 2 /\ burst = 0
  /\ lastWritten # Null /\ lastWritten.v.name = Str(" Nova ")
  /\ name = Str(" Nova ")
  /\ storage = Str(JSONStringify(lastWritten.v))

(***************************************************************************)
(* C14.  Scroll locking: while the editor is mounted the body's overflow   *)
(* style is "hidden"; whenever it is not mounted the style is the page's   *)
(* own, so every unmount (after a save, an Escape key, a backdrop          *)
(* pointer-down, the close button, or none of them) puts back exactly the  *)
(* value the style had before the mount.  The unmount is the step that     *)
(* restores it: its cleanup writes the value the mount captured.           *)
(***************************************************************************)
C14_ScrollLock ==
  [][/\ mounted' => bodyOverflow' = "hidden"
     /\ ~mounted' => bodyOverflow' = PageOverflow
     /\ (\E iv \in HostInitials : Mount(iv, FALSE)) => prevOverflow' = bodyOverflow
     /\ Unmount => bodyOverflow' = prevOverflow /\ prevOverflow = PageOverflow]_vars

\* unmounted again after a session: the style is the page's own, not "hidden"
C14_Witness ==
  /\ ~mounted /\ mounts > 0
  /\ bodyOverflow = PageOverflow /\ bodyOverflow # "hidden"

(***************************************************************************)
(* C15.  At most one handle is live: after every step at most one URL      *)
(* created in the session has no revoke call, and when a step calls        *)
(* createObjectURL, every URL created earlier in the session was revoked   *)
(* before that call, in an earlier step or earlier in the same step.       *)
(***************************************************************************)
C15_AtMostOneLive ==
  [][/\ Cardinality(Live') <= 1
     /\ \A j \in 1..Len(out') :
          out'[j].op = "create"
            => \A u \in sessionCreated :
                 \/ u \in DOMAIN revokes
                 \/ \E i \in 1..(j - 1) : out'[i] = RevokeCall(u)]_vars

\* the second upload of a session: the first URL is revoked, then the second is
\* created and becomes the preview
C15_Witness ==
  /\ mounted /\ sessionCreated = {BlobUrl(1), BlobUrl(2)}
  /\ avatarPreviewUrl = Str(BlobUrl(2))
  /\ Len(out) >= 2 /\ out[1] = RevokeCall(BlobUrl(1)) /\ out[2] = CreateCall(BlobUrl(2))
  /\ Live = {BlobUrl(2)}

(***************************************************************************)
(* C16.  Initialization merge: when the editor is mounted over a stored    *)
(* object, each of its five fields starts as the object's value if the     *)
(* object has the field, else as the host's value if the host gave one,    *)
(* else as the built-in default (no avatar, empty name, bio and link,      *)
(* streamer mode off); a bio over 100 characters is cut to the first 100.  *)
(* A field the stored object lacks therefore never hides a host value.     *)
(***************************************************************************)
C16_InitializationMerge ==
  [][\A iv \in InitHosts, r \in InitRecords :
       Mount(iv, FALSE) /\ storage = Str(r.text)
         => \A k \in Fields : Values'[k] = StartsWithField(r.fields, iv, k)]_vars

\* mounted over a stored object with a link and no name, bio or toggle, with a
\* host that gives all five: the link and the avatar are the draft's, the rest
\* are the host's
C16_Witness ==
  /\ mounted /\ edits = 0 /\ burst = 0
  /\ storage = Str("{\"avatarUrl\":null,\"twitterLink\":\"https://x.com/d\",\"theme\":\"dark\"}")
  /\ avatarPreviewUrl = Null /\ twitterLink = Str("https://x.com/d")
  /\ name = Str("Host") /\ bio = Str(Bio100) /\ streamerMode = Bool(TRUE)

(***************************************************************************)
(* C19.  Reading never fails: when getItem throws, or the slot is null,    *)
(* empty, not JSON, or JSON for null, a number, a string or a boolean,     *)
(* readDraft() returns null and the editor starts from the host's values   *)
(* and the built-in defaults alone.                                        *)
(***************************************************************************)
C19_ReadNeverRaises ==
  [][\A iv \in InitHosts, throws \in BOOLEAN :
       Mount(iv, throws) /\ (throws \/ storage \in BadSlots)
         => /\ readDraft(storage, throws) = Null
            /\ \A k \in Fields : Values'[k] = StartsWithField(EmptyProps, iv, k)]_vars

\* mounted over a slot that holds the start of an object and no more
C19_Witness ==
  /\ mounted /\ edits = 0 /\ burst = 0
  /\ storage = Str("{\"name\":\"x")
  /\ name = Str("Host") /\ avatarPreviewUrl = Str("/h.png")

(***************************************************************************)
(* C17.  An edit of the name, the bio or the link sets that field to the   *)
(* value typed and takes that field's error away; the other four fields    *)
(* and the errors of the other fields stay as they are.                    *)
(***************************************************************************)
C17_EditFrame ==
  [][/\ \A v \in SaveNames :
          SetName(v) => /\ name' = Str(v)
                        /\ Reported(errors') = Reported(errors) \ {"name"}
                        /\ \A f \in DOMAIN errors \ {"name"} : Prop(errors', f) = errors[f]
                        /\ UNCHANGED <<avatarPreviewUrl, bio, twitterLink, streamerMode>>
     /\ \A v \in SaveBios :
          SetBio(v) => /\ bio' = Str(v)
                       /\ Reported(errors') = Reported(errors) \ {"bio"}
                       /\ \A f \in DOMAIN errors \ {"bio"} : Prop(errors', f) = errors[f]
                       /\ UNCHANGED <<avatarPreviewUrl, name, twitterLink, streamerMode>>
     /\ \A v \in SaveLinks :
          SetTwitterLink(v)
            => /\ twitterLink' = Str(v)
               /\ Reported(errors') = Reported(errors) \ {"twitterLink"}
               /\ \A f \in DOMAIN errors \ {"twitterLink"} : Prop(errors', f) = errors[f]
               /\ UNCHANGED <<avatarPreviewUrl, name, bio, streamerMode>>]_vars

\* a save reported the name and the bio, then the name was edited: the bio's
\* error is still shown, the name's is not
C17_Witness ==
  /\ mounted /\ saveFailed /\ edits = 2
  /\ name = Str("Nova") /\ bio = Str(Bio105)
  /\ "name" \in DOMAIN errors /\ Reported(errors) = {"bio"}
  /\ errors.bio = Str("Bio must be 100 characters or fewer.")

(***************************************************************************)
(* C18.  The errors are recomputed as a whole by every save: right after a *)
(* save they are those of exactly the fields whose current values fail,    *)
(* with nothing left of an earlier save.  No other step adds an error, and *)
(* in every state a field with an error shown has a value that fails, so   *)
(* an error is shown only for a field that failed at the last save and was *)
(* not edited since.                                                       *)
(***************************************************************************)
C18_ErrorsRecomputed ==
  [][/\ SaveStep => /\ Reported(errors') = FailingFields(name'.v, bio'.v, twitterLink'.v)
                    /\ DOMAIN errors' = Reported(errors')
     /\ ~SaveStep => Reported(errors') \subseteq Reported(errors)
     /\ Reported(errors') \subseteq FailingFields(name'.v, bio'.v, twitterLink'.v)]_vars

\* a save reported a blank name over a bio that is too long, the name was then
\* typed in, and the next save reports the bio alone
C18_Witness ==
  /\ mounted /\ saveFailed /\ edits = 2
  /\ name = Str("Nova") /\ bio = Str(Bio105) /\ twitterLink = Str("")
  /\ errors = [bio |-> Str("Bio must be 100 characters or fewer.")]
  /\ out = <<>>

(***************************************************************************)
(* C20.  A write the storage refuses is a no-op.  A debounced write that   *)
(* is refused leaves the storage slot, the fields, the errors and the      *)
(* onClose count as they are and makes no other call.  A save of valid     *)
(* values whose write is refused leaves the slot and the fields as they    *)
(* are, reports no error, and still calls the toast and then onClose.      *)
(***************************************************************************)
C20_RefusedWriteIsNoOp ==
  [][/\ DebounceFire(FALSE)
          => /\ UNCHANGED <<storage, fieldVars, errors, closeVars, saveFailed>>
             /\ Len(out') = 1 /\ out'[1].op = "write" /\ ~out'[1].accepted
     /\ HandleSave(FALSE) /\ FailingFields(name.v, bio.v, twitterLink.v) = {}
          => /\ UNCHANGED <<storage, fieldVars, saveFailed>>
             /\ Reported(errors') = {}
             /\ IsCommit(out') /\ ~out'[1].accepted
             /\ closeCalls' = closeCalls + 1]_vars

\* a save of valid values over an empty slot, refused by the storage: the toast
\* and onClose were called and the slot is still empty
C20_Witness ==
  /\ mounted /\ IsCommit(out) /\ ~out[1].accepted
  /\ storage = Null /\ lastWritten = Null
  /\ closeCalls = 1 /\ Reported(errors) = {}

(***************************************************************************)
(* C21.  A failing createObjectURL (the claim as the specification states  *)
(* it): when handleUploadChange is called with a file and createObjectURL  *)
(* throws, the preview URL stays what it was, no URL is created, and the   *)
(* URL that stays has not been revoked: the step makes no revokeObjectURL  *)
(* call for it.                                                            *)
(***************************************************************************)
C21_FailedCreateKeepsPreview ==
  [][HandleUploadChange(TRUE, TRUE)
       => /\ avatarPreviewUrl' = avatarPreviewUrl
          /\ UNCHANGED <<nextHandle, sessionCreated>>
          /\ \A i \in 1..Len(out') :
               /\ out'[i].op # "create"
               /\ out'[i].op = "revoke" => Str(out'[i].url) # avatarPreviewUrl']_vars

(***************************************************************************)
(* C22.  The saved record stays (the claim as the specification states     *)
(* it): after a handleSave whose write the storage accepted, and for as    *)
(* long as no field changes, the storage slot holds the text of the        *)
(* payload that save wrote, whether the host has unmounted the editor or   *)
(* not.                                                                    *)
(***************************************************************************)
C22_SavedRecordStays ==
  committed # Null => storage = Str(JSONStringify(committed.v))

(***************************************************************************)
(* C23.  Opening arms the debounce timer.  While the editor is mounted and *)
(* no field has changed since the mount, either one timeout is pending,    *)
(* with the initial values, and no write was made, or none is pending and  *)
(* exactly one write was made, 150 ms or more after the mount, of the      *)
(* initial values.  A step that unmounts the editor or finds it unmounted  *)
(* makes no write.  And the write does come: a mounted editor with no      *)
(* field change and no write yet leads to its unmount, a field change, or  *)
(* the one write.                                                          *)
(***************************************************************************)
C23_OpenArmsTimer ==
  /\ [](mounted /\ burst = 0
          => /\ Len(timers) + debWrites = 1
             /\ \A i \in 1..Len(timers) : timers[i].draft = Values
             /\ debWrites = 1 => sinceChange >= DEBOUNCE_MS
             /\ \A i \in 1..Len(out) : out[i].op = "write" => out[i].draft = Values)
  /\ [](~mounted => \A i \in 1..Len(out) : out[i].op # "write")
  /\ (mounted /\ burst = 0 /\ debWrites = 0) ~> (~mounted \/ burst > 0 \/ debWrites = 1)

\* mounted over the stale draft and left alone for 150 ms: the one write is of
\* the merged initial values, the bio cut to 100 characters
C23_Witness ==
  /\ mounted /\ edits = 0 /\ burst = 0 /\ debWrites = 1 /\ timers = <<>>
  /\ out = <<WriteCall("debounce", Values, TRUE)>>
  /\ name = Str(" Nova ") /\ bio = Str(Bio100)
  /\ storage = Str(JSONStringify(Values))

(***************************************************************************)
(* RoundTimer, the looping version (src/unnamed/part_000, lines 8-26).     *)
(* React commits a render first and runs its effect afterwards, so a       *)
(* render with a changed initialSeconds is a state of its own: the prop is *)
(* new, the seconds state and the running interval are still the old ones. *)
(***************************************************************************)
\* the host mounts the timer: useState(initialSeconds); the effect is yet to run
RoundTimerMount(n) ==
  /\ ~timerMounted
  /\ timerMounted' = TRUE
  /\ initialSeconds' = n
  /\ seconds' = n
  /\ interval' = NoInterval
  /\ effectDue' = TRUE
  /\ UNCHANGED modalVars

\* the host renders the timer with another initialSeconds
RoundTimerRender(n) ==
  /\ timerMounted
  /\ n # initialSeconds
  /\ initialSeconds' = n
  /\ effectDue' = TRUE
  /\ UNCHANGED <<timerMounted, seconds, interval>>
  /\ UNCHANGED modalVars

\* the effect of the committed render: the cleanup of the effect before it
\* (clearInterval), then setSeconds(initialSeconds) and a new setInterval
RoundTimerEffect ==
  /\ timerMounted /\ effectDue
  /\ seconds' = initialSeconds
  /\ interval' = [running |-> TRUE, initialSeconds |-> initialSeconds]
  /\ effectDue' = FALSE
  /\ UNCHANGED <<timerMounted, initialSeconds>>
  /\ UNCHANGED modalVars

\* the interval's callback: setSeconds((prev) => prev > 0 ? prev - 1 : initialSeconds)
IntervalTick ==
  /\ interval.running
  /\ seconds' = IF seconds > 0 THEN seconds - 1 ELSE interval.initialSeconds
  /\ UNCHANGED <<timerMounted, initialSeconds, interval, effectDue>>
  /\ UNCHANGED modalVars

\* the host unmounts the timer: the cleanup of the last effect that ran
RoundTimerUnmount ==
  /\ timerMounted
  /\ timerMounted' = FALSE
  /\ interval' = NoInterval
  /\ effectDue' = FALSE
  /\ UNCHANGED <<initialSeconds, seconds>>
  /\ UNCHANGED modalVars

(***************************************************************************)
(* SpecRound: the timer is mounted, ticks, gets other initialSeconds and   *)
(* is unmounted.                                                           *)
(***************************************************************************)
InitRound == InitWith({Null})

NextRound ==
  \/ \E n \in 0..MaxSeconds : RoundTimerMount(n)
  \/ \E n \in 0..MaxSeconds : RoundTimerRender(n)
  \/ RoundTimerEffect
  \/ IntervalTick
  \/ RoundTimerUnmount

SpecRound == InitRound /\ [][NextRound]_vars

(***************************************************************************)
(* C24.  The looping round timer (the claim as the specification states    *)
(* it, in its part about the range): while the timer is mounted, the       *)
(* seconds it shows are at least 0 and at most initialSeconds.             *)
(***************************************************************************)
C24_SecondsWithinRound ==
  timerMounted => 0 <= seconds /\ seconds <= initialSeconds

=============================================================================
